---- MODULE Spec2Model ----
(***************************************************************************)
(* A model of predictor_transformer.py: PositionalEncoding,                *)
(* CrossTransformer, SelfTransformer, AgentEncoder, MapEncoder,            *)
(* Agent2Agent, Agent2Map, Decoder and Predictor.                          *)
(*                                                                         *)
(* Tensors are sequences (index i of the source is index i+1 here).       *)
(* Numeric abstraction: every 128-wide channel block is represented by    *)
(* one integer (its channel 0), so a 128-dim embedding is an integer, a    *)
(* 256-dim vector a pair and a 384-dim vector a triple.  Floating point    *)
(* is fixed point, LayerNorm is a reduction into a bounded range, and a    *)
(* module instance's learned parameters are one integer.  Dropout is the   *)
(* identity (inference mode).  Shapes, masks, aliasing, the order of the   *)
(* steps and which value flows into which operation are modelled as in     *)
(* the source.                                                             *)
(***************************************************************************)
EXTENDS Integers, Sequences, FiniteSets, TLC

VARIABLES
    \* ---- Predictor.forward ----
    pc,                         \* position in Predictor.forward
    dims,                       \* shapes of the call: B, N_n, N_l, T_f
    use_interaction,            \* constructor argument of Predictor / Decoder
    params,                     \* learned parameters, one integer per instance
    plan,                       \* argument plan (B, T_f, 4)
    observations,               \* keys of the observations mapping
    obs_keys,                   \* keys of observations not yet iterated
    ego, neighbors, ego_map, neighbor_map,
    encoded_ego, encoded_neighbors, encoded_ego_map, encoded_neighbor_map,
    agent_agent,
    per_agent_tensor_list,
    per_agent_prediction_list,
    prediction,                 \* the returned tensor
    raised,                     \* exception that ended the call, or "none"
    attn_calls,                 \* key_padding_mask of every masked attention call
    enc_calls,                  \* encoder instance used at every call site
    map_masks,                  \* per neighbor: map_mask on entry / after Agent2Map
    \* ---- Decoder.forward, two calls of one decoder ----
    dpc, dcall, dcfg, dstate, doutputs, dtrace, dresult,
    \* ---- PositionalEncoding.forward ----
    ppc, pmax_len, px, presult

pred_vars == <<pc, dims, use_interaction, params, plan, observations, obs_keys,
               ego, neighbors, ego_map, neighbor_map,
               encoded_ego, encoded_neighbors, encoded_ego_map, encoded_neighbor_map,
               agent_agent, per_agent_tensor_list, per_agent_prediction_list,
               prediction, raised, attn_calls, enc_calls, map_masks>>
dec_vars == <<dpc, dcall, dcfg, dstate, doutputs, dtrace, dresult>>
pe_vars == <<ppc, pmax_len, px, presult>>
vars == <<pred_vars, dec_vars, pe_vars>>

----------------------------------------------------------------------------
(* Bounds of the model. *)

MaxB == 2
MaxNn == 2
MaxNl == 2
MaxExtraTf == 1
MaxLen == 4

(* Constants of the program. *)

NSteps == 30
HistLen == 11
Waypoints == 51
LaneSample == 10
StateDim == 3

(* The numeric abstraction: q is the range LayerNorm reduces into, one is    *)
(* the fixed-point 1.0 of the sigmoid gate.                                  *)
Fixed == [q |-> 7, one |-> 2]

----------------------------------------------------------------------------
(* Tensor helpers. *)

RECURSIVE SumSeq(_)
SumSeq(s) == IF Len(s) = 0 THEN 0 ELSE Head(s) + SumSeq(Tail(s))

Mod(x, m) == x % m

ReLU(x) == IF x > 0 THEN x ELSE 0

\* ELU: the identity on x >= 0, saturating towards -1 below.
ELU(x) == IF x >= 0 THEN x ELSE -1

\* Sigmoid in fixed point: 0 below the underflow point, one above saturation.
Sigmoid(x) == IF x < 2 THEN 0 ELSE IF x > 4 THEN Fixed.one ELSE Fixed.one \div 2

LayerNorm(x) == Mod(x, Fixed.q)

\* A tensor built elementwise, as an explicit sequence.
Mat(f) == f \o <<>>

\* first n entries of s (s[:, :n] on the last axis)
Take(s, n) == Mat([k \in 1..n |-> s[k]])

\* sum of the keys the padding mask leaves visible (value = key)
RECURSIVE VisibleSum(_, _)
VisibleSum(keys, mask) ==
    IF Len(keys) = 0 THEN 0
    ELSE (IF Head(mask) THEN 0 ELSE Head(keys)) + VisibleSum(Tail(keys), Tail(mask))

\* nn.MultiheadAttention for one batch element: every query position attends
\* to the keys the padding mask leaves visible.
\* (With every key masked PyTorch's softmax row is undefined; the sum is empty here.)
MultiheadAttention(w, queries, keys, mask) ==
    LET visible == VisibleSum(keys, mask)
    IN  Mat([q \in 1..Len(queries) |-> w * queries[q] + visible])

\* ffn of SelfTransformer / CrossTransformer:
\* LayerNorm, Linear, ReLU, Dropout, Linear, LayerNorm
FFN(w, x) == LayerNorm(w * ReLU(w * LayerNorm(x) + 1) + 1)

\* Some batch element of a key padding mask has no visible key.
FullyMasked(mask) == \E b \in 1..Len(mask) : \A k \in 1..Len(mask[b]) : mask[b][k]

----------------------------------------------------------------------------
(* PositionalEncoding *)

\* channel 0 of the table row of position p: sin(p * 1), in thousandths
SinTable ==
    << 0, 841, 909, 141, -757, -959, -279, 657, 989, 412, -544, -1000, -537,
       420, 991, 650, -288, -961, -751, 150, 913, 837, -9, -846, -906, -132,
       763, 956, 271, -664, -988, -404, 551, 1000, 529, -428, -992, -644, 296,
       964, 745, -159, -917, -832, 18, 851, 902, 124, -768, -954, -262 >>

\* self.pe, shape (1, max_len, d): the rows of positions 0 .. max_len-1
PETable(max_len) == [p \in 1..max_len |-> SinTable[p]]

\* Length of the sequence axis of x + self.pe under broadcasting, 0 when the
\* shapes do not broadcast (RuntimeError).
BroadcastLen(s, l) ==
    IF s = l THEN s ELSE IF s = 1 THEN l ELSE IF l = 1 THEN s ELSE 0

\* PositionalEncoding.forward: x + self.pe, then dropout.
\* x is (B, S); value is (B, BroadcastLen(S, max_len)) unless the addition raises.
PositionalEncodingForward(max_len, x) ==
    LET s == Len(x[1])
        n == BroadcastLen(s, max_len)
        pe == PETable(max_len)
    IN  IF n = 0 THEN [error |-> "RuntimeError", value |-> <<>>]
        ELSE [error |-> "none",
              value |-> Mat([b \in 1..Len(x) |->
                          Mat([p \in 1..n |->
                            x[b][IF s = 1 THEN 1 ELSE p]
                              + pe[IF max_len = 1 THEN 1 ELSE p]])])]

----------------------------------------------------------------------------
(* SelfTransformer, CrossTransformer *)

\* SelfTransformer.forward: input (B, S), mask (B, S) -> (B, S)
SelfTransformerForward(w, input, mask) ==
    Mat([b \in 1..Len(input) |->
        LET attention_output == MultiheadAttention(w, input[b], input[b], mask[b])
        IN  Mat([q \in 1..Len(attention_output) |-> FFN(w, attention_output[q])])])

\* CrossTransformer.forward, line 30: mask[:, 0] = False, written into the
\* caller's tensor (mask is whatever view the caller passed).
CrossTransformerRepairNone(mask) == mask
CrossTransformerRepair(mask) ==
    Mat([b \in 1..Len(mask) |-> [mask[b] EXCEPT ![1] = FALSE]])

\* CrossTransformer.forward: query (B, 1), key (B, K), mask (B, K).
\* mask is the caller's view after the in-place write, output is (B, 1).
CrossTransformerForward(w, query, key, mask) ==
    LET repaired == CrossTransformerRepair(mask)
    IN  [mask |-> repaired,
         output |-> Mat([b \in 1..Len(query) |->
                       LET attention_output ==
                               MultiheadAttention(w, query[b], key[b], repaired[b])
                       IN  Mat([q \in 1..Len(attention_output) |->
                                  FFN(w, attention_output[q])])])]

----------------------------------------------------------------------------
(* AgentEncoder, MapEncoder *)

\* Linear(n, 64), ReLU, Linear(64, 128) on one feature row
PointMLP(w, row) == w * ReLU(w * SumSeq(row) + 1) + 1

\* AgentEncoder.forward lines 56-57: the history padding mask
AgentEncoderMask(inputs) ==
    LET eq == Mat([b \in 1..Len(inputs) |->
                 Mat([t \in 1..Len(inputs[b]) |-> inputs[b][t][1] = 0])])
    IN  Mat([b \in 1..Len(eq) |-> [eq[b] EXCEPT ![Len(eq[b])] = FALSE]])

\* AgentEncoder.forward: inputs (B, T_h, 5) -> output (B)
AgentEncoderForward(w, inputs) ==
    LET mask == AgentEncoderMask(inputs)
        position == Mat([b \in 1..Len(inputs) |->
                       Mat([t \in 1..Len(inputs[b]) |-> PointMLP(w, inputs[b][t])])])
        encode == PositionalEncodingForward(HistLen, position).value
        time == SelfTransformerForward(w, encode, mask)
    IN  [mask |-> mask,
         output |-> Mat([b \in 1..Len(time) |-> time[b][Len(time[b])]])]

\* MapEncoder.forward: pointwise on the last axis of a tensor of the given rank
RECURSIVE MapEncoderForward(_, _, _)
MapEncoderForward(w, inputs, rank) ==
    IF rank = 0 THEN PointMLP(w, inputs)
    ELSE Mat([k \in 1..Len(inputs) |-> MapEncoderForward(w, inputs[k], rank - 1)])

----------------------------------------------------------------------------
(* Agent2Agent *)

\* Agent2Agent.forward: inputs (B, 1+N_n), mask (B, 1+N_n)
Agent2AgentForward(w1, w2, inputs, mask) ==
    LET output == SelfTransformerForward(w1, inputs, mask)
        sum == Mat([b \in 1..Len(inputs) |->
                  Mat([a \in 1..Len(inputs[b]) |-> inputs[b][a] + output[b][a]])])
    IN  SelfTransformerForward(w2, sum, mask)

----------------------------------------------------------------------------
(* Agent2Map.  mask (B, N_l, W) is one tensor; mask[:, i] and mask[:, :, 10] *)
(* are views of it, so what CrossTransformer writes lands in mask.          *)

LaneView(mask, i) == Mat([b \in 1..Len(mask) |-> mask[b][i]])

WriteLaneView(mask, i, view) ==
    Mat([b \in 1..Len(mask) |-> [mask[b] EXCEPT ![i] = view[b]]])

\* mask[:, :, 10]
SampleViewAt0(mask) ==
    Mat([b \in 1..Len(mask) |-> Mat([j \in 1..Len(mask[b]) |-> mask[b][j][1]])])
SampleView(mask) ==
    Mat([b \in 1..Len(mask) |-> Mat([j \in 1..Len(mask[b]) |-> mask[b][j][LaneSample + 1]])])

WriteSampleView(mask, view) ==
    Mat([b \in 1..Len(mask) |->
        Mat([j \in 1..Len(mask[b]) |->
            [mask[b][j] EXCEPT ![LaneSample + 1] = view[b][j]]])])

\* line 94-95: the per-lane calls, for i = done+1 .. N_l in order
RECURSIVE LaneLoop(_, _, _, _, _)
LaneLoop(w, query, waypoints, mask, acc) ==
    LET i == Len(acc.outs) + 1
    IN  IF i > Len(waypoints[1]) THEN [mask |-> mask, outs |-> acc.outs, keys |-> acc.keys]
        ELSE LET key == PositionalEncodingForward(
                            Waypoints, Mat([b \in 1..Len(waypoints) |-> waypoints[b][i]])).value
                 r == CrossTransformerForward(w, query, key, LaneView(mask, i))
             IN  LaneLoop(w, query, waypoints, WriteLaneView(mask, i, r.mask),
                          [outs |-> Append(acc.outs, r.output),
                           keys |-> Append(acc.keys, r.mask)])

\* Agent2Map.forward: actor (B), waypoints (B, N_l, W), mask (B, N_l, W).
\* output (B); mask: the caller's tensor after the call; lane_keys, map_key:
\* the key padding masks the attention calls used.
Agent2MapForward(w_lane, w_map, actor, waypoints, mask) ==
    LET query == Mat([b \in 1..Len(actor) |-> <<actor[b]>>])
        lanes == LaneLoop(w_lane, query, waypoints, mask, [outs |-> <<>>, keys |-> <<>>])
        lane_attention == Mat([b \in 1..Len(actor) |->
                             Mat([i \in 1..Len(lanes.outs) |-> lanes.outs[i][b][1]])])
        m == CrossTransformerForward(w_map, query, lane_attention, SampleView(lanes.mask))
    IN  [output |-> Mat([b \in 1..Len(actor) |-> m.output[b][1]]),
         mask |-> WriteSampleView(lanes.mask, m.mask),
         after_lanes |-> lanes.mask,
         lane_keys |-> lanes.keys,
         map_key |-> m.mask]

----------------------------------------------------------------------------
(* Gate: Linear(256, 64), ReLU, Linear(64, 1), Sigmoid on cat([ego, neighbor]) *)

Gate(w, pair) == Sigmoid(w * ReLU(w * (pair[1] + pair[2]) + 1) - 3)

----------------------------------------------------------------------------
(* Decoder.  dp are the parameters of one Decoder: state_input, plan_input,  *)
(* transformer_encoder, decode.  A 384-dim vector is a triple of blocks.    *)

\* Linear(3, 384)
Linear3To384(w, v) == Mat([k \in 1..3 |-> w * (v[1] + 2 * v[2] + 3 * v[3]) + k])

\* lines 151-159: the input features of one step for one batch element
DecoderInputPlanAlways(dp, use_int, current_state, plan_row, gate) ==
    LET plan_features == Linear3To384(dp.state_input, Take(plan_row, StateDim))
        state_features == Linear3To384(dp.state_input, current_state)
    IN  Mat([k \in 1..3 |-> state_features[k] + (plan_features[k] * gate) \div Fixed.one])
DecoderInputNoGate(dp, use_int, current_state, plan_row, gate) ==
    IF use_int
    THEN LET plan_features == Linear3To384(dp.plan_input, Take(plan_row, StateDim))
             state_features == Linear3To384(dp.state_input, current_state)
         IN  Mat([k \in 1..3 |-> state_features[k] + plan_features[k]])
    ELSE Linear3To384(dp.state_input, current_state)
DecoderInput(dp, use_int, current_state, plan_row, gate) ==
    IF use_int
    THEN LET plan_features == Linear3To384(dp.plan_input, Take(plan_row, StateDim))
             state_features == Linear3To384(dp.state_input, current_state)
         IN  Mat([k \in 1..3 |-> state_features[k] + (plan_features[k] * gate) \div Fixed.one])
    ELSE Linear3To384(dp.state_input, current_state)

\* nn.TransformerEncoder, one post-norm layer, on one position of a sequence:
\* self-attention + residual + norm, feed-forward + residual + norm
TransformerEncoderLayer(w, x) ==
    LET x1 == Mat([k \in 1..3 |-> LayerNorm(x[k] + w * x[k])])
    IN  Mat([k \in 1..3 |-> LayerNorm(x1[k] + w * ReLU(w * x1[k] + 1) + 1)])

\* self.decode: Dropout, Linear(384, 64), ELU, Linear(64, 3)
Decode(w, hidden) ==
    LET h == ELU(w * (hidden[1] + hidden[2] + hidden[3]) - 9)
    IN  <<h - 1, -h, h + 1>>

\* line 172: next_state = current_state + state_update
ResidualUpdateDeltaOnly(current_state, state_update) == state_update
ResidualUpdate(current_state, state_update) ==
    Mat([c \in 1..StateDim |-> current_state[c] + state_update[c]])

\* The submodules and tensor operations one step invokes, in order.
StepOps(use_int) ==
    (IF use_int THEN <<"plan_input", "state_input", "gate">> ELSE <<"state_input">>)
    \o <<"init_hidden", "unsqueeze", "transformer_encoder", "squeeze", "decode",
         "residual">>

\* lines 150-175: step t (0-based) of the loop, on the whole batch.
\* init_hidden (B, triple), plan_t = plan[:, t] (B, 4), gate (B), current_state (B, 3)
DecoderStep(dp, use_int, init_hidden, plan_t, gate, current_state) ==
    LET B == Len(current_state)
        current_input ==
            Mat([b \in 1..B |->
                LET f == DecoderInput(dp, use_int, current_state[b], plan_t[b], gate[b])
                IN  Mat([k \in 1..3 |-> f[k] + init_hidden[b][k]])])
        current_seq == Mat([b \in 1..B |-> <<current_input[b]>>])
        transformed ==
            Mat([b \in 1..B |->
                Mat([p \in 1..Len(current_seq[b]) |->
                    TransformerEncoderLayer(dp.transformer, current_seq[b][p])])])
        hidden == Mat([b \in 1..B |-> transformed[b][1]])
        state_update == Mat([b \in 1..B |-> Decode(dp.decode, hidden[b])])
    IN  [current_state |-> current_state,
         state_update |-> state_update,
         tf_input |-> current_seq,
         ops |-> StepOps(use_int),
         next_state |-> Mat([b \in 1..B |-> ResidualUpdate(current_state[b], state_update[b])])]

\* plan[:, t, :] for the 0-based step t; read only in interaction mode (line 153)
PlanAt(use_int, plan_arg, t) == Mat([b \in 1..Len(plan_arg) |-> plan_arg[b][t + 1]])

\* line 147: init_state[:, :3].clone()
InitialState(init_state) ==
    Mat([b \in 1..Len(init_state) |-> Take(init_state[b], StateDim)])

\* line 150: the steps of the loop
StepCountPlanLength(plan_arg) == Len(plan_arg[1])
StepCount(plan_arg) == NSteps

\* line 177: torch.stack(outputs, dim=1): (steps, B, 3) -> (B, steps, 3)
DecoderStack(outputs) ==
    Mat([b \in 1..Len(outputs[1]) |-> Mat([t \in 1..Len(outputs) |-> outputs[t][b]])])

\* lines 147, 175: the state entering the next step is the first 3 components
\* of init_state before step 0 and a copy of the last output afterwards
CurrentState(initial, outputs) ==
    IF Len(outputs) = 0 THEN initial ELSE outputs[Len(outputs)]

RECURSIVE DecoderLoop(_, _, _, _, _, _, _)
DecoderLoop(dp, use_int, init_hidden, plan_arg, gate, initial, outputs) ==
    IF Len(outputs) >= StepCount(plan_arg) THEN outputs
    ELSE DecoderLoop(dp, use_int, init_hidden, plan_arg, gate, initial,
                     Append(outputs,
                            DecoderStep(dp, use_int, init_hidden,
                                        PlanAt(use_int, plan_arg, Len(outputs)), gate,
                                        CurrentState(initial, outputs)).next_state))

\* Decoder.forward
DecoderForward(dp, use_int, init_hidden, plan_arg, gate, init_state) ==
    DecoderStack(DecoderLoop(dp, use_int, init_hidden, plan_arg, gate,
                             InitialState(init_state), <<>>))

----------------------------------------------------------------------------
(* Inputs of Predictor.forward: observation tensors with the validity-flag  *)
(* convention (a padded timestep / waypoint is an all-zero row).            *)

HistKinds == <<"absent", "valid", "partial">>
LaneKinds == <<"absent", "valid", "no_wp0", "short">>

IndexOf(seq, x) == CHOOSE k \in 1..Len(seq) : seq[k] = x

Rotate(seq, x, by) == seq[((IndexOf(seq, x) - 1 + by) % Len(seq)) + 1]

\* whether timestep t (1-based) of a history of this kind is observed
HistValid(kind, t) ==
    CASE kind = "absent" -> FALSE
      [] kind = "valid" -> TRUE
      [] kind = "partial" -> t > 6 /\ t < HistLen

\* one timestep: 5 features, the first is zero exactly on a padded timestep
HistRow(kind, b, t) ==
    IF HistValid(kind, t) THEN <<t + b, 2 * t, b, 1, t % 2>> ELSE <<0, 0, 0, 0, 0>>

\* ego_state (B, T_h, 5)
EgoTensor(kind, B) ==
    Mat([b \in 1..B |-> Mat([t \in 1..HistLen |-> HistRow(Rotate(HistKinds, kind, b - 1), b, t)])])

\* neighbors_state (B, N_n, T_h, 5); kinds[i] is the kind of neighbor i
NeighborsTensor(kinds, B) ==
    Mat([b \in 1..B |->
        Mat([i \in 1..Len(kinds) |->
            Mat([t \in 1..HistLen |-> HistRow(Rotate(HistKinds, kinds[i], b - 1), b, t)])])])

\* the kinds of the neighbors: all alike, or each the next kind after the other
NeighborKinds(kind, alike, N_n) ==
    Mat([i \in 1..N_n |-> IF alike THEN kind ELSE Rotate(HistKinds, kind, i - 1)])

\* whether waypoint p (1-based) of a lane of this kind is present
LaneValid(kind, p) ==
    CASE kind = "absent" -> FALSE
      [] kind = "valid" -> TRUE
      [] kind = "no_wp0" -> p > 1
      [] kind = "short" -> p <= LaneSample

\* one waypoint: 4 features, the last is zero exactly on a padded waypoint
LaneRow(kind, j, p) ==
    IF LaneValid(kind, p) THEN <<p + j, p, j, 1>> ELSE <<0, 0, 0, 0>>

LaneKindAt(k) == LaneKinds[(k % Len(LaneKinds)) + 1]

\* ego_map (B, N_l, W, 4)
EgoMapTensor(base, B, N_l) ==
    Mat([b \in 1..B |->
        Mat([j \in 1..N_l |->
            Mat([p \in 1..Waypoints |-> LaneRow(LaneKindAt(base + b + j), j, p)])])])

\* neighbors_map (B, N_n, N_l, W, 4)
NeighborMapTensor(base, B, N_n, N_l) ==
    Mat([b \in 1..B |->
        Mat([i \in 1..N_n |->
            Mat([j \in 1..N_l |->
                Mat([p \in 1..Waypoints |-> LaneRow(LaneKindAt(base + b + i + j), j, p)])])])])

\* plan (B, T_f, 4)
PlanTensor(seed, B, T_f) ==
    Mat([b \in 1..B |-> Mat([t \in 1..T_f |-> <<seed + t, seed * b, t % 3, 1>>])])

----------------------------------------------------------------------------
(* Predictor *)

\* Decoder.__init__: plan_input exists only in interaction mode
DecoderInit(use_int, w) ==
    IF use_int
    THEN [state_input |-> w, plan_input |-> w + 1, transformer |-> 1, decode |-> 1]
    ELSE [state_input |-> w, transformer |-> 1, decode |-> 1]

\* Predictor.__init__: one parameter set per constructed module instance;
\* e and n are the parameters the two AgentEncoder instances start with.
PredictorInit(use_int, e, n) ==
    [ego_net |-> e, neighbor_net |-> n, map_net |-> 1,
     lane |-> 2, map |-> 1, interaction_1 |-> 1, interaction_2 |-> 2,
     gate |-> 1, decoder |-> DecoderInit(use_int, 1)]

\* ego_net and neighbor_net are initialised independently of each other
EncoderSeeds == {<<1, 2>>}

ValidKeys == {"ego_state", "neighbors_state", "ego_map", "neighbors_map"}

\* the key sets of the observations mapping: the four keys, with or without
\* an unrecognised one
KeySets == {ValidKeys, ValidKeys \cup {"other"}}

\* lines 210, 213, 216, 219: the module instance each key is encoded with
EncoderInstanceFirstNeighborEgoNet(key, i) ==
    CASE key = "ego_state" -> "ego_net"
      [] key = "neighbors_state" -> IF i = 1 THEN "ego_net" ELSE "neighbor_net"
      [] OTHER -> "map_net"
EncoderInstance(key, i) ==
    CASE key = "ego_state" -> "ego_net"
      [] key = "neighbors_state" -> "neighbor_net"
      [] key = "ego_map" -> "map_net"
      [] key = "neighbors_map" -> "map_net"

\* lines 207-221: which branch of the dispatch a key takes
KeyBranchElseEgoMap(key) == IF key \in ValidKeys THEN key ELSE "ego_map"
KeyBranch(key) == IF key \in ValidKeys THEN key ELSE "raise"

DecoderIdle ==
    /\ dpc = "idle" /\ dcall = 0 /\ dcfg = <<>> /\ dstate = <<>>
    /\ doutputs = <<>> /\ dtrace = <<>> /\ dresult = <<>>

PositionalEncodingIdle ==
    /\ ppc = "idle" /\ pmax_len = 0 /\ px = <<>> /\ presult = <<>>

PredictorIdle ==
    /\ pc = "idle" /\ dims = <<>> /\ use_interaction = FALSE /\ params = <<>>
    /\ plan = <<>> /\ observations = {} /\ obs_keys = {}
    /\ ego = <<>> /\ neighbors = <<>> /\ ego_map = <<>> /\ neighbor_map = <<>>
    /\ encoded_ego = <<>> /\ encoded_neighbors = <<>>
    /\ encoded_ego_map = <<>> /\ encoded_neighbor_map = <<>>
    /\ agent_agent = <<>> /\ per_agent_tensor_list = <<>>
    /\ per_agent_prediction_list = <<>> /\ prediction = <<>>
    /\ raised = "none" /\ attn_calls = {} /\ enc_calls = {} /\ map_masks = <<>>

Init ==
    /\ pc = "keys"
    /\ dims \in [B : 1..MaxB, N_n : 1..MaxNn, N_l : 1..MaxNl,
                 T_f : {NSteps, NSteps + MaxExtraTf}]
    /\ use_interaction \in BOOLEAN
    /\ \E s \in EncoderSeeds : params = PredictorInit(use_interaction, s[1], s[2])
    /\ plan = PlanTensor(1, dims.B, dims.T_f)
    /\ observations \in KeySets
    /\ obs_keys = observations
    /\ ego = <<>> /\ neighbors = <<>> /\ ego_map = <<>> /\ neighbor_map = <<>>
    /\ encoded_ego = <<>> /\ encoded_neighbors = <<>>
    /\ encoded_ego_map = <<>> /\ encoded_neighbor_map = <<>>
    /\ agent_agent = <<>>
    /\ per_agent_tensor_list = <<>>
    /\ per_agent_prediction_list = <<>>
    /\ prediction = <<>>
    /\ raised = "none"
    /\ attn_calls = {}
    /\ enc_calls = {}
    /\ map_masks = <<>>
    /\ DecoderIdle
    /\ PositionalEncodingIdle

\* line 207: the loop goes on while keys are left, then line 224 follows
AfterKey(keys) == IF keys = {} THEN "agent_agent" ELSE "keys"

\* lines 208-210
EncodeEgo ==
    /\ pc = "keys"
    /\ \E key \in obs_keys, kind \in {HistKinds[k] : k \in 1..Len(HistKinds)} :
        /\ KeyBranch(key) = "ego_state"
        /\ LET sub_space == EgoTensor(kind, dims.B)
               inst == EncoderInstance(key, 0)
               r == AgentEncoderForward(params[inst], sub_space)
           IN  /\ ego' = sub_space
               /\ encoded_ego' = <<r.output>>
               /\ attn_calls' = attn_calls \cup {[site |-> "history", agent |-> 0, lane |-> 0, mask |-> r.mask]}
               /\ enc_calls' = enc_calls \cup {[key |-> key, index |-> 0, instance |-> inst]}
        /\ obs_keys' = obs_keys \ {key}
        /\ pc' = AfterKey(obs_keys')
    /\ UNCHANGED <<dims, use_interaction, params, plan, observations, neighbors, ego_map, neighbor_map,
                   encoded_neighbors, encoded_ego_map, encoded_neighbor_map, agent_agent,
                   per_agent_tensor_list, per_agent_prediction_list, prediction, raised,
                   map_masks, dec_vars, pe_vars>>

\* lines 211-213
EncodeNeighbors ==
    /\ pc = "keys"
    /\ \E key \in obs_keys, kind \in {HistKinds[k] : k \in 1..Len(HistKinds)},
          alike \in BOOLEAN :
        /\ KeyBranch(key) = "neighbors_state"
        /\ LET sub_space == NeighborsTensor(NeighborKinds(kind, alike, dims.N_n), dims.B)
               N == Len(sub_space[1])
               r == Mat([i \in 1..N |->
                       AgentEncoderForward(
                           params[EncoderInstance(key, i)],
                           Mat([b \in 1..Len(sub_space) |-> sub_space[b][i]]))])
           IN  /\ neighbors' = sub_space
               /\ encoded_neighbors' = Mat([i \in 1..N |-> r[i].output])
               /\ attn_calls' = attn_calls \cup
                     {[site |-> "history", agent |-> i, lane |-> 0, mask |-> r[i].mask] :
                        i \in 1..N}
               /\ enc_calls' = enc_calls \cup
                     {[key |-> key, index |-> i, instance |-> EncoderInstance(key, i)] :
                        i \in 1..N}
        /\ obs_keys' = obs_keys \ {key}
        /\ pc' = AfterKey(obs_keys')
    /\ UNCHANGED <<dims, use_interaction, params, plan, observations, ego, ego_map, neighbor_map,
                   encoded_ego, encoded_ego_map, encoded_neighbor_map, agent_agent,
                   per_agent_tensor_list, per_agent_prediction_list, prediction, raised,
                   map_masks, dec_vars, pe_vars>>

\* lines 214-216
EncodeEgoMap ==
    /\ pc = "keys"
    /\ \E key \in obs_keys :
        /\ KeyBranch(key) = "ego_map"
        /\ LET sub_space == EgoMapTensor(0, dims.B, dims.N_l)
               inst == EncoderInstance(key, 0)
           IN  /\ ego_map' = sub_space
               /\ encoded_ego_map' = MapEncoderForward(params[inst], sub_space, 3)
               /\ enc_calls' = enc_calls \cup {[key |-> key, index |-> 0, instance |-> inst]}
        /\ obs_keys' = obs_keys \ {key}
        /\ pc' = AfterKey(obs_keys')
    /\ UNCHANGED <<dims, use_interaction, params, plan, observations, ego, neighbors, neighbor_map,
                   encoded_ego, encoded_neighbors, encoded_neighbor_map, agent_agent,
                   per_agent_tensor_list, per_agent_prediction_list, prediction, raised,
                   attn_calls, map_masks, dec_vars, pe_vars>>

\* lines 217-219
EncodeNeighborMap ==
    /\ pc = "keys"
    /\ \E key \in obs_keys, base \in 0..(Len(LaneKinds) - 1) :
        /\ KeyBranch(key) = "neighbors_map"
        /\ LET sub_space == NeighborMapTensor(base, dims.B, dims.N_n, dims.N_l)
               inst == EncoderInstance(key, 0)
           IN  /\ neighbor_map' = sub_space
               /\ encoded_neighbor_map' = MapEncoderForward(params[inst], sub_space, 4)
               /\ enc_calls' = enc_calls \cup {[key |-> key, index |-> 0, instance |-> inst]}
        /\ obs_keys' = obs_keys \ {key}
        /\ pc' = AfterKey(obs_keys')
    /\ UNCHANGED <<dims, use_interaction, params, plan, observations, ego, neighbors, ego_map,
                   encoded_ego, encoded_neighbors, encoded_ego_map, agent_agent,
                   per_agent_tensor_list, per_agent_prediction_list, prediction, raised,
                   attn_calls, map_masks, dec_vars, pe_vars>>

\* lines 220-221: any other key raises KeyError out of forward
RaiseKeyError ==
    /\ pc = "keys"
    /\ \E key \in obs_keys :
        /\ KeyBranch(key) = "raise"
        /\ raised' = "KeyError"
        /\ pc' = "raised"
    /\ UNCHANGED <<dims, use_interaction, params, plan, observations, obs_keys, ego, neighbors, ego_map,
                   neighbor_map, encoded_ego, encoded_neighbors, encoded_ego_map,
                   encoded_neighbor_map, agent_agent, per_agent_tensor_list,
                   per_agent_prediction_list, prediction, attn_calls, enc_calls,
                   map_masks, dec_vars, pe_vars>>

\* line 225-226: the agent padding mask, from the last timestep's first feature
ActorMask(ego_arg, neighbors_arg) ==
    LET eq == Mat([b \in 1..Len(ego_arg) |->
                 LET agents == <<ego_arg[b]>> \o neighbors_arg[b]
                 IN  Mat([a \in 1..Len(agents) |-> agents[a][Len(agents[a])][1] = 0])])
    IN  Mat([b \in 1..Len(eq) |-> [eq[b] EXCEPT ![1] = FALSE]])

\* line 224: torch.stack(encoded_ego + encoded_neighbors, dim=1)
EncodedActors(enc_ego, enc_neighbors) ==
    LET list == enc_ego \o enc_neighbors
    IN  Mat([b \in 1..Len(list[1]) |-> Mat([a \in 1..Len(list) |-> list[a][b]])])

\* lines 223-227
AgentAgent ==
    /\ pc = "agent_agent"
    /\ LET encoded_actors == EncodedActors(encoded_ego, encoded_neighbors)
           actor_mask == ActorMask(ego, neighbors)
       IN  /\ agent_agent' = Agent2AgentForward(params.interaction_1, params.interaction_2,
                                                encoded_actors, actor_mask)
           /\ attn_calls' = attn_calls \cup
                 {[site |-> "interaction_1", agent |-> 0, lane |-> 0, mask |-> actor_mask],
                  [site |-> "interaction_2", agent |-> 0, lane |-> 0, mask |-> actor_mask]}
    /\ pc' = "agent_map"
    /\ UNCHANGED <<dims, use_interaction, params, plan, observations, obs_keys, ego,
                   neighbors, ego_map, neighbor_map, encoded_ego, encoded_neighbors,
                   encoded_ego_map, encoded_neighbor_map, per_agent_tensor_list,
                   per_agent_prediction_list, prediction, raised, enc_calls, map_masks,
                   dec_vars, pe_vars>>

\* line 232: map_mask = torch.eq(neighbor_map[:, i, :, :, -1], 0), a new tensor
\* for every neighbor i
MapMask(nmap, i) ==
    Mat([b \in 1..Len(nmap) |->
        Mat([j \in 1..Len(nmap[b][i]) |->
            Mat([p \in 1..Len(nmap[b][i][j]) |->
                nmap[b][i][j][p][Len(nmap[b][i][j][p])] = 0])])])

\* lines 231-234, one iteration: neighbor i = Len(per_agent_tensor_list) + 1
AgentMap ==
    /\ pc = "agent_map"
    /\ LET i == Len(per_agent_tensor_list) + 1
           B == Len(neighbors)
           map_mask == MapMask(neighbor_map, i)
           r == Agent2MapForward(params.lane, params.map,
                                 Mat([b \in 1..B |-> agent_agent[b][i + 1]]),
                                 Mat([b \in 1..B |-> encoded_neighbor_map[b][i]]),
                                 map_mask)
       IN  /\ per_agent_tensor_list' =
                 Append(per_agent_tensor_list,
                        Mat([b \in 1..B |->
                            <<r.output[b], encoded_neighbors[i][b], agent_agent[b][i + 1]>>]))
           /\ attn_calls' = attn_calls \cup
                 {[site |-> "lane", agent |-> i, lane |-> j, mask |-> r.lane_keys[j]] :
                    j \in 1..Len(r.lane_keys)}
                 \cup {[site |-> "map", agent |-> i, lane |-> 0, mask |-> r.map_key]}
           /\ map_masks' = Append(map_masks,
                 [entry |-> map_mask, after_lanes |-> r.after_lanes, after |-> r.mask,
                  map_key |-> r.map_key])
           /\ pc' = IF i >= Len(neighbors[1]) THEN "decode" ELSE "agent_map"
    /\ UNCHANGED <<dims, use_interaction, params, plan, observations, obs_keys, ego,
                   neighbors, ego_map, neighbor_map, encoded_ego, encoded_neighbors,
                   encoded_ego_map, encoded_neighbor_map, agent_agent,
                   per_agent_prediction_list, prediction, raised, enc_calls,
                   dec_vars, pe_vars>>

\* lines 238-241, one iteration: neighbor i = Len(per_agent_prediction_list) + 1
DecodeNeighbor ==
    /\ pc = "decode"
    /\ LET i == Len(per_agent_prediction_list) + 1
           B == Len(neighbors)
           gate == Mat([b \in 1..B |->
                      Gate(params.gate, <<encoded_ego[1][b], encoded_neighbors[i][b]>>)])
           predict_traj ==
               DecoderForward(params.decoder, use_interaction, per_agent_tensor_list[i],
                              plan, gate,
                              Mat([b \in 1..B |-> neighbors[b][i][Len(neighbors[b][i])]]))
       IN  /\ per_agent_prediction_list' = Append(per_agent_prediction_list, predict_traj)
           /\ pc' = IF i >= Len(neighbors[1]) THEN "stack" ELSE "decode"
    /\ UNCHANGED <<dims, use_interaction, params, plan, observations, obs_keys, ego,
                   neighbors, ego_map, neighbor_map, encoded_ego, encoded_neighbors,
                   encoded_ego_map, encoded_neighbor_map, agent_agent,
                   per_agent_tensor_list, prediction, raised, attn_calls, enc_calls,
                   map_masks, dec_vars, pe_vars>>

\* line 243: torch.stack(per_agent_prediction_list, dim=1)
PredictionStack(list) ==
    Mat([b \in 1..Len(list[1]) |-> Mat([i \in 1..Len(list) |-> list[i][b]])])

\* lines 243-245
Return ==
    /\ pc = "stack"
    /\ prediction' = PredictionStack(per_agent_prediction_list)
    /\ pc' = "done"
    /\ UNCHANGED <<dims, use_interaction, params, plan, observations, obs_keys, ego,
                   neighbors, ego_map, neighbor_map, encoded_ego, encoded_neighbors,
                   encoded_ego_map, encoded_neighbor_map, agent_agent,
                   per_agent_tensor_list, per_agent_prediction_list, raised, attn_calls,
                   enc_calls, map_masks, dec_vars, pe_vars>>

Next ==
    \/ EncodeEgo
    \/ EncodeNeighbors
    \/ EncodeEgoMap
    \/ EncodeNeighborMap
    \/ RaiseKeyError
    \/ AgentAgent
    \/ AgentMap
    \/ DecodeNeighbor
    \/ Return

Spec == Init /\ [][Next]_vars

----------------------------------------------------------------------------
(* Decoder.forward step by step: two calls that share the parameters, the    *)
(* context init_hidden, the gate and init_state, and differ in the           *)
(* construction flag use_interaction and in the plan.                        *)

PlanSeeds == {1, 2}
GateValues == 0..Fixed.one

\* init_hidden (B, 384): the per-agent context, three blocks of LayerNorm range
ContextTensor(h, B) == Mat([b \in 1..B |-> <<(h + b) % Fixed.q, (2 * h) % Fixed.q, 3>>])

\* gate (B, 1)
GateTensor(g, B) == Mat([b \in 1..B |-> (g + b - 1) % (Fixed.one + 1)])

\* init_state (B, 5) = neighbors[:, i, -1]
InitStateTensor(kind, B) ==
    Mat([b \in 1..B |-> HistRow(Rotate(HistKinds, kind, 2 * (b - 1)), b, HistLen)])

InitDecoder ==
    /\ PredictorIdle
    /\ PositionalEncodingIdle
    /\ dpc = "enter"
    /\ dcall = 1
    /\ \E B \in 1..MaxB, T_f \in {NSteps, NSteps + MaxExtraTf},
          u1 \in BOOLEAN, u2 \in BOOLEAN, p1 \in PlanSeeds, p2 \in PlanSeeds,
          g \in GateValues,
          h \in 0..1, kind \in {"absent", "valid"}, w \in 1..2 :
        dcfg = [use_interaction |-> <<u1, u2>>,
                plan |-> <<PlanTensor(p1, B, T_f), PlanTensor(p2, B, T_f)>>,
                gate |-> GateTensor(g, B),
                init_hidden |-> ContextTensor(h, B),
                init_state |-> InitStateTensor(kind, B),
                w |-> w]
    /\ dstate = <<>>
    /\ doutputs = <<>>
    /\ dtrace = <<>>
    /\ dresult = <<>>

\* lines 144-147
DecoderEnter ==
    /\ dpc = "enter"
    /\ doutputs' = <<>>
    /\ dtrace' = <<>>
    /\ dstate' = InitialState(dcfg.init_state)
    /\ dpc' = "loop"
    /\ UNCHANGED <<dcall, dcfg, dresult, pred_vars, pe_vars>>

\* lines 150-175: one iteration, t = Len(doutputs)
DecoderIterate ==
    /\ dpc = "loop"
    /\ Len(doutputs) < StepCount(dcfg.plan[dcall])
    /\ LET t == Len(doutputs)
           use_int == dcfg.use_interaction[dcall]
           r == DecoderStep(DecoderInit(use_int, dcfg.w), use_int, dcfg.init_hidden,
                            PlanAt(use_int, dcfg.plan[dcall], t), dcfg.gate, dstate)
       IN  /\ doutputs' = Append(doutputs, r.next_state)
           /\ dstate' = r.next_state
           /\ dtrace' = Append(dtrace, [t |-> t, current_state |-> r.current_state,
                                        state_update |-> r.state_update,
                                        tf_input |-> r.tf_input, ops |-> r.ops])
    /\ UNCHANGED <<dpc, dcall, dcfg, dresult, pred_vars, pe_vars>>

\* lines 177-178; then the second call is made
DecoderReturn ==
    /\ dpc = "loop"
    /\ Len(doutputs) >= StepCount(dcfg.plan[dcall])
    /\ dresult' = Append(dresult, DecoderStack(doutputs))
    /\ IF dcall = 1 THEN dcall' = 2 /\ dpc' = "enter" ELSE dcall' = dcall /\ dpc' = "done"
    /\ UNCHANGED <<dcfg, dstate, doutputs, dtrace, pred_vars, pe_vars>>

NextDecoder ==
    \/ DecoderEnter
    \/ DecoderIterate
    \/ DecoderReturn

SpecDecoder == InitDecoder /\ [][NextDecoder]_vars

----------------------------------------------------------------------------
(* PositionalEncoding.forward on its own, for tables of any maximum length. *)

\* x (B, S)
InputTensor(seed, B, S) == Mat([b \in 1..B |-> Mat([p \in 1..S |-> seed + b * p])])

InitPositionalEncoding ==
    /\ PredictorIdle
    /\ DecoderIdle
    /\ ppc = "call"
    /\ pmax_len \in 1..MaxLen
    /\ \E seed \in 0..2, B \in 1..MaxB, S \in 1..MaxLen : px = InputTensor(seed, B, S)
    /\ presult = <<>>

\* lines 17-20
PositionalEncodingCall ==
    /\ ppc = "call"
    /\ presult' = PositionalEncodingForward(pmax_len, px)
    /\ ppc' = "done"
    /\ UNCHANGED <<pmax_len, px, pred_vars, dec_vars>>

NextPositionalEncoding == PositionalEncodingCall

SpecPositionalEncoding == InitPositionalEncoding /\ [][NextPositionalEncoding]_vars

----------------------------------------------------------------------------
(* Properties of Predictor.forward, under Spec.                              *)

Batch == 1..dims.B
Neighbors == 1..dims.N_n

\* C1: a returned prediction has shape exactly (B, N_n, 30, 3), also for a plan
\* of more than 30 timesteps, and holds the trajectory decoded for neighbor i
\* at agent index i.
C1_PredictionShape ==
    pc = "done" =>
        /\ Len(prediction) = dims.B
        /\ \A b \in Batch :
            /\ Len(prediction[b]) = dims.N_n
            /\ \A i \in Neighbors :
                /\ Len(prediction[b][i]) = NSteps
                /\ \A t \in 1..Len(prediction[b][i]) :
                      Len(prediction[b][i][t]) = StateDim
                /\ prediction[b][i] = per_agent_prediction_list[i][b]

C1_Witness ==
    /\ pc = "done"
    /\ dims.T_f > NSteps
    /\ dims.B > 1
    /\ dims.N_n > 1
    /\ use_interaction
    /\ \E b \in Batch : prediction[b][1] # prediction[b][2]

\* C2: with an unrecognised key in the observations the call never gets past
\* the key loop: it can only raise KeyError, and nothing is returned, wherever
\* the key comes in the iteration order.
C2_UnknownKeyRaises ==
    "other" \in observations =>
        /\ pc \in {"keys", "raised"}
        /\ prediction = <<>>
        /\ pc = "keys" => ("other" \in obs_keys /\ raised = "none" /\ ENABLED RaiseKeyError)
        /\ pc = "raised" => raised = "KeyError"

\* the unrecognised key came last: all four tensors were encoded before it
C2_Witness ==
    /\ pc = "raised"
    /\ raised = "KeyError"
    /\ obs_keys = {"other"}
    /\ encoded_ego # <<>>
    /\ encoded_neighbor_map # <<>>

AgentAbsent(b, i) == \A t \in 1..HistLen : neighbors[b][i][t][1] = 0

MapAbsent(b, i) ==
    \A j \in 1..dims.N_l : \A p \in 1..Waypoints : neighbor_map[b][i][j][p][4] = 0

\* C3: every key padding mask given to an attention call leaves a key visible
\* for every batch element: the last timestep in AgentEncoder, agent 0 in
\* Agent2Agent, key 0 in both CrossTransformer stages.
C3_EveryMaskHasVisibleKey ==
    \A c \in attn_calls :
        /\ ~FullyMasked(c.mask)
        /\ \A b \in 1..Len(c.mask) :
            IF c.site = "history" THEN ~c.mask[b][HistLen] ELSE ~c.mask[b][1]

\* a whole forward call with an ego and a neighbor that are all padding
C3_Witness ==
    /\ pc = "done"
    /\ {c.site : c \in attn_calls} =
          {"history", "interaction_1", "interaction_2", "lane", "map"}
    /\ \E b \in Batch :
        /\ \A t \in 1..HistLen : ego[b][t][1] = 0
        /\ \E i \in Neighbors : AgentAbsent(b, i) /\ MapAbsent(b, i)

NeighborHistory(i) == [b \in Batch |-> neighbors[b][i]]

\* C7 as stated: an ego and a neighbor with the same history get the same
\* agent embedding (one AgentEncoder instance for all call sites).
C7_EgoNeighborSameEmbedding ==
    (encoded_ego # <<>> /\ encoded_neighbors # <<>>) =>
        \A i \in Neighbors :
            (\A b \in Batch : neighbors[b][i] = ego[b]) =>
                encoded_neighbors[i] = encoded_ego[1]

\* C7 amended: every neighbor is encoded by the one instance neighbor_net, so
\* neighbors with the same history get the same embedding; the ego is encoded
\* by ego_net; ego_map and neighbors_map are both encoded by map_net, so equal
\* maps get equal encodings.
C7_NeighborsShareEncoder ==
    /\ \A c \in enc_calls :
          c.instance = (CASE c.key = "ego_state" -> "ego_net"
                          [] c.key = "neighbors_state" -> "neighbor_net"
                          [] OTHER -> "map_net")
    /\ encoded_neighbors # <<>> =>
          \A i \in Neighbors, j \in Neighbors :
              NeighborHistory(i) = NeighborHistory(j) =>
                  encoded_neighbors[i] = encoded_neighbors[j]
    /\ (encoded_ego_map # <<>> /\ encoded_neighbor_map # <<>>) =>
          \A i \in Neighbors :
              (\A b \in Batch : neighbor_map[b][i] = ego_map[b]) =>
                  \A b \in Batch : encoded_neighbor_map[b][i] = encoded_ego_map[b]

C7_Witness ==
    /\ pc = "done"
    /\ params.ego_net # params.neighbor_net
    /\ dims.N_n > 1
    /\ NeighborHistory(1) = NeighborHistory(2)
    /\ \E b \in Batch : ~AgentAbsent(b, 1)
    /\ \E i \in Neighbors : \A b \in Batch : neighbor_map[b][i] = ego_map[b]

\* C10: the across-lane key mask is the caller's mask at waypoint 10 as it was
\* on entry, for every lane but lane 0, which is False; the per-lane repairs
\* clear waypoint 0 of each lane and nothing else; every neighbor's mask is
\* built afresh from that neighbor's map.
C10_AcrossLaneMask ==
    \A i \in 1..Len(map_masks) :
        LET m == map_masks[i]
        IN  \A b \in Batch : \A j \in 1..dims.N_l :
                /\ m.map_key[b][j] =
                      (IF j = 1 THEN FALSE ELSE m.entry[b][j][LaneSample + 1])
                /\ \A p \in 1..Waypoints :
                      /\ m.entry[b][j][p] = (neighbor_map[b][i][j][p][4] = 0)
                      /\ m.after_lanes[b][j][p] =
                            (IF p = 1 THEN FALSE ELSE m.entry[b][j][p])

\* the second neighbor's lane 0 has waypoint 10 padded, its lane 1 waypoints 0 and 10
C10_Witness ==
    /\ pc = "done"
    /\ Len(map_masks) > 1
    /\ dims.N_l > 1
    /\ \E b \in Batch :
          LET m == map_masks[2]
          IN  /\ m.entry[b][1][LaneSample + 1]
              /\ m.entry[b][2][1] /\ m.entry[b][2][LaneSample + 1]
              /\ m.map_key[b][2]
              /\ ~m.after[b][1][LaneSample + 1]

----------------------------------------------------------------------------
(* Properties of Decoder.forward, under SpecDecoder.                         *)

DBatch == 1..Len(dcfg.init_state)

RECURSIVE SumOfUpdates(_, _, _, _)
SumOfUpdates(trace, k, b, c) ==
    IF k = 0 THEN 0 ELSE trace[k].state_update[b][c] + SumOfUpdates(trace, k - 1, b, c)

\* C4: the steps run in the order t = 0, 1, ...; the state entering step 0 is
\* init_state[:, :3] and the state entering step t+1 is the output of step t;
\* each output is the entering state plus the step's delta, hence the initial
\* state plus the deltas so far; a finished call returns its 30 outputs in
\* step order.
C4_ResidualUpdateLaw ==
    dpc \in {"loop", "done"} =>
        /\ Len(dtrace) = Len(doutputs)
        /\ Len(doutputs) <= NSteps
        /\ \A k \in 1..Len(dtrace) :
            /\ dtrace[k].t = k - 1
            /\ \A b \in DBatch : \A c \in 1..StateDim :
                /\ dtrace[k].current_state[b][c] =
                      (IF k = 1 THEN dcfg.init_state[b][c] ELSE doutputs[k - 1][b][c])
                /\ doutputs[k][b][c] =
                      dtrace[k].current_state[b][c] + dtrace[k].state_update[b][c]
                /\ doutputs[k][b][c] =
                      dcfg.init_state[b][c] + SumOfUpdates(dtrace, k, b, c)
        /\ dpc = "done" =>
            /\ Len(doutputs) = NSteps
            /\ \A b \in DBatch :
                /\ Len(dresult[dcall][b]) = NSteps
                /\ \A t \in 1..NSteps : dresult[dcall][b][t] = doutputs[t][b]

C4_Witness ==
    /\ dpc = "done"
    /\ \E b \in DBatch :
        /\ dcfg.init_state[b][1] # 0
        /\ dtrace[NSteps].state_update[b][1] # 0
        /\ doutputs[NSteps][b] # doutputs[NSteps - 1][b]

C6_GateZeroEqualsNoPlan ==
    (dpc = "done" /\ dcfg.use_interaction = <<TRUE, FALSE>>) =>
        \A b \in DBatch :
            dcfg.gate[b] = 0 => \A t \in 1..NSteps : dresult[1][b][t] = dresult[2][b][t]

\* one batch element has gate 0, another has not and there the plan shows
C6_Witness ==
    /\ dpc = "done"
    /\ dcfg.use_interaction = <<TRUE, FALSE>>
    /\ \E b \in DBatch : dcfg.gate[b] = 0
    /\ \E b \in DBatch : dcfg.gate[b] # 0 /\ dresult[1][b] # dresult[2][b]

Before(ops, first, second) ==
    \E p \in 1..Len(ops), q \in 1..Len(ops) :
        p < q /\ ops[p] = first /\ ops[q] = second

\* C9: in every step the positional encoding is applied to the step input
\* before the transformer-encoder layer (after the context is added, before
\* the delta is decoded).
C9_PositionalEncodingBeforeTransformer ==
    \A k \in 1..Len(dtrace) :
        /\ Before(dtrace[k].ops, "state_input", "init_hidden")
        /\ Before(dtrace[k].ops, "init_hidden", "unsqueeze")
        /\ Before(dtrace[k].ops, "unsqueeze", "pos_encoding")
        /\ Before(dtrace[k].ops, "pos_encoding", "transformer_encoder")
        /\ Before(dtrace[k].ops, "transformer_encoder", "decode")

----------------------------------------------------------------------------
(* Properties of PositionalEncoding.forward, under SpecPositionalEncoding.   *)

\* C8: every x with sequence length S <= max_len is accepted, the result has
\* the shape of x, and position p has the table row of position p added.
C8_AcceptsEveryShorterSequence ==
    (ppc = "done" /\ Len(px[1]) <= pmax_len) =>
        /\ presult.error = "none"
        /\ Len(presult.value) = Len(px)
        /\ \A b \in 1..Len(px) :
            /\ Len(presult.value[b]) = Len(px[b])
            /\ \A p \in 1..Len(px[b]) : presult.value[b][p] = px[b][p] + SinTable[p]

====
